---- MODULE Spec2Model ----
(***************************************************************************)
(* State-machine model of two request handlers of the wallet's RPC         *)
(* pipeline:                                                               *)
(*   - switchEthereumChainHandler (wallet_switchEthereumChain), and        *)
(*   - the middleware built by createPermissionsMethodMiddleware.          *)
(* Every handler is an async function: it runs without interruption up to  *)
(* its next await, so one action of the model is one such synchronous      *)
(* segment, and the requests in flight are the handlers suspended at an    *)
(* await.                                                                  *)
(***************************************************************************)
EXTENDS Bags, FiniteSets, Integers, Sequences, TLC

VARIABLES
  middleware,                   \* the middleware under analysis
  provider,                     \* the active network (behind getCurrentChainId)
  frequentRpcList,              \* the custom-network store (behind findCustomRpcBy)
  isProcessingRequestAccounts,  \* the middleware's in-flight flag
  inflight,                     \* bag of handler invocations suspended at an await
  settled                       \* <<r>>: the invocation whose handler just settled

vars == <<middleware, provider, frequentRpcList, isProcessingRequestAccounts, inflight, settled>>

\* Most handler invocations that may be suspended at the same time.
MaxInFlight == 2

-----------------------------------------------------------------------------
(* JavaScript values.  A string is a sequence of one-character strings, so *)
(* that letter case, prefixes and padding are what the code sees.          *)

Str(s) == [t |-> "string", s |-> s]
Num(s) == [t |-> "number", s |-> s]
Undefined == [t |-> "undefined", s |-> <<>>]
False == [t |-> "boolean", s |-> <<>>]

ToLowerChar(c) ==
  CASE c = "A" -> "a" [] c = "B" -> "b" [] c = "C" -> "c" [] c = "D" -> "d"
    [] c = "E" -> "e" [] c = "F" -> "f" [] c = "X" -> "x" [] c = "Z" -> "z"
    [] OTHER -> c

toLowerCase(s) == [i \in 1..Len(s) |-> ToLowerChar(s[i])]

\* req.params[0] (req.params for metamask_sendDomainMetadata): undefined, a
\* primitive, or an object given by its own enumerable properties.
Obj(fields) == [shape |-> "object", fields |-> fields]
NoParam == [shape |-> "undefined", fields |-> {}]
StringParam == [shape |-> "string", fields |-> {}]

Keys(p) == {f[1] : f \in p.fields}
Get(p, k) ==
  IF k \in Keys(p) THEN (CHOOSE f \in p.fields : f[1] = k)[2] ELSE Undefined

-----------------------------------------------------------------------------
(* Errors of eth-rpc-errors: a numeric code and a message.                 *)

NoError == [code |-> 0, message |-> ""]
invalidParams(message) == [code |-> -32602, message |-> message]
resourceUnavailable(message) == [code |-> -32002, message |-> message]
internal(message) == [code |-> -32603, message |-> message]
custom(code, message) == [code |-> code, message |-> message]

UNRECOGNIZED_CHAIN_CODE == 4902

-----------------------------------------------------------------------------
(* shared/constants/network: the built-in chains.                          *)

MAINNET_CHAIN_ID == <<"0", "x", "1">>
ROPSTEN_CHAIN_ID == <<"0", "x", "3">>
RINKEBY_CHAIN_ID == <<"0", "x", "4">>
GOERLI_CHAIN_ID == <<"0", "x", "5">>
KOVAN_CHAIN_ID == <<"0", "x", "2", "a">>

ETH_SYMBOL == "ETH"

CHAIN_ID_TO_TYPE_MAP ==
  (MAINNET_CHAIN_ID :> "mainnet") @@ (ROPSTEN_CHAIN_ID :> "ropsten") @@
  (RINKEBY_CHAIN_ID :> "rinkeby") @@ (GOERLI_CHAIN_ID :> "goerli") @@
  (KOVAN_CHAIN_ID :> "kovan")

NETWORK_TO_NAME_MAP ==
  (MAINNET_CHAIN_ID :> "Ethereum Mainnet") @@ (ROPSTEN_CHAIN_ID :> "Ropsten") @@
  (RINKEBY_CHAIN_ID :> "Rinkeby") @@ (GOERLI_CHAIN_ID :> "Goerli") @@
  (KOVAN_CHAIN_ID :> "Kovan")

CHAIN_ID_TO_RPC_URL_MAP ==
  (MAINNET_CHAIN_ID :> "https://mainnet.infura.io/v3/") @@
  (ROPSTEN_CHAIN_ID :> "https://ropsten.infura.io/v3/") @@
  (RINKEBY_CHAIN_ID :> "https://rinkeby.infura.io/v3/") @@
  (GOERLI_CHAIN_ID :> "https://goerli.infura.io/v3/") @@
  (KOVAN_CHAIN_ID :> "https://kovan.infura.io/v3/")

\* `key in object`
In(key, object) == key \in DOMAIN object

(* A chain descriptor; a property the object does not have is "".          *)
Descriptor(chainId, ticker, nickname, rpcUrl, rpcPrefs, type) ==
  [chainId |-> chainId, ticker |-> ticker, nickname |-> nickname,
   rpcUrl |-> rpcUrl, rpcPrefs |-> rpcPrefs, type |-> type]

\* undefined / null where a descriptor is expected
Absent == Descriptor(<<>>, "", "", "", "", "")

-----------------------------------------------------------------------------
(* shared/modules/network.utils                                            *)

HexDigits ==
  {"0", "1", "2", "3", "4", "5", "6", "7", "8", "9", "a", "b", "c", "d", "e", "f"}

\* /^0x[1-9a-f]+[0-9a-f]*$/ on a string; anything else is no match
isPrefixedFormattedHexString(value) ==
  /\ value.t = "string"
  /\ Len(value.s) >= 3
  /\ value.s[1] = "0"
  /\ value.s[2] = "x"
  /\ value.s[3] \in HexDigits \ {"0"}
  /\ \A i \in 4..Len(value.s) : value.s[i] \in HexDigits

HexValue(c) ==
  CASE c = "0" -> 0 [] c = "1" -> 1 [] c = "2" -> 2 [] c = "3" -> 3
    [] c = "4" -> 4 [] c = "5" -> 5 [] c = "6" -> 6 [] c = "7" -> 7
    [] c = "8" -> 8 [] c = "9" -> 9 [] c = "a" -> 10 [] c = "b" -> 11
    [] c = "c" -> 12 [] c = "d" -> 13 [] c = "e" -> 14 [] c = "f" -> 15

\* parseInt(s, 16) of a 0x-prefixed hex string: the number, as its base-16
\* digits, most significant first (chain ids do not fit a machine integer).
parseInt16(s) == [i \in 1..(Len(s) - 2) |-> HexValue(s[i + 2])]

RECURSIVE StripZeros(_)
StripZeros(n) == IF n # <<>> /\ Head(n) = 0 THEN StripZeros(Tail(n)) ELSE n

RECURSIVE LexLeq(_, _)
LexLeq(a, b) ==
  IF a = <<>> THEN TRUE
  ELSE IF Head(a) # Head(b) THEN Head(a) < Head(b)
  ELSE LexLeq(Tail(a), Tail(b))

\* a <= b on base-16 digit sequences
BigLeq(a, b) ==
  LET x == StripZeros(a)
      y == StripZeros(b)
  IN IF Len(x) # Len(y) THEN Len(x) < Len(y) ELSE LexLeq(x, y)

\* 2^53 - 1 = 0x1fffffffffffff
MAX_SAFE_CHAIN_ID == <<1>> \o [i \in 1..13 |-> 15]

isSafeChainId(chainId) ==
  /\ StripZeros(chainId) # <<>>
  /\ BigLeq(chainId, MAX_SAFE_CHAIN_ID)

-----------------------------------------------------------------------------
(* The collaborators' state.                                               *)

\* networkController.setProviderType(type): the built-in network of that type
setProviderType(type) ==
  [type |-> type,
   chainId |-> CHOOSE id \in DOMAIN CHAIN_ID_TO_TYPE_MAP : CHAIN_ID_TO_TYPE_MAP[id] = type,
   rpcUrl |-> ""]

\* networkController.updateRpcTarget(descriptor), once it resolves
updateRpcTarget(descriptor) ==
  [type |-> "rpc", chainId |-> descriptor.chainId, rpcUrl |-> descriptor.rpcUrl]

getCurrentChainId == provider.chainId

RECURSIVE FirstMatch(_, _)
FirstMatch(list, chainId) ==
  IF list = <<>> THEN Absent
  ELSE IF Head(list).chainId = chainId THEN Head(list)
  ELSE FirstMatch(Tail(list), chainId)

\* preferencesController.findCustomRpcBy({ chainId }): the first match or absent
findCustomRpcBy(list, chainId) == FirstMatch(list, chainId)

-----------------------------------------------------------------------------
(* One handler invocation: the request, the response being built, what the *)
(* handler has called so far, and where it is suspended.                   *)

Unset == [tag |-> "unset", list |-> <<>>]
Null == [tag |-> "null", list |-> <<>>]
True == [tag |-> "true", list |-> <<>>]
Array(list) == [tag |-> "array", list |-> list]

Invocation(kind, req) ==
  [kind |-> kind, pc |-> "start", req |-> req,
   calls |-> <<>>,             \* collaborator calls, in order
   typeArgs |-> <<>>,          \* the arguments of setProviderType
   rpcArgs |-> <<>>,           \* the arguments of updateRpcTarget
   requestData |-> Absent,
   forActiveChain |-> FALSE,   \* it asks for the chain active at its arrival
   approved |-> Absent,        \* what requestUserApproval resolved with
   rejected |-> NoError,       \* what an awaited call rejected with
   fetched |-> <<>>,           \* what the flow's getAccounts calls resolved with
   result |-> Unset, error |-> NoError,
   ends |-> 0,                 \* how often end was called
   hook |-> FALSE,             \* responseHandler is set
   todo |-> <<>>,              \* the response hook's remaining permissions
   notified |-> <<>>]          \* the arguments of notifyAccountsChanged

Call(r, name) == [r EXCEPT !.calls = Append(@, name)]

\* end(error): the engine records the error on the response
end(r, error) ==
  [r EXCEPT !.pc = "ended", !.ends = @ + 1,
            !.error = IF error = NoError THEN @ ELSE error]

Called(r, name) == \E i \in DOMAIN r.calls : r.calls[i] = name

-----------------------------------------------------------------------------
(* switchEthereumChainHandler                                              *)

BSC_CHAIN_ID == <<"0", "x", "3", "8">>

\* The lookup with the custom store asked first.
findExistingNetworkCustomFirst(chainId, list) ==
  IF findCustomRpcBy(list, chainId) # Absent \/ ~In(chainId, CHAIN_ID_TO_TYPE_MAP)
  THEN [requestData |-> findCustomRpcBy(list, chainId),
        calls |-> <<"findCustomRpcBy">>]
  ELSE [requestData |->
          Descriptor(chainId, ETH_SYMBOL, NETWORK_TO_NAME_MAP[chainId],
                     CHAIN_ID_TO_RPC_URL_MAP[chainId], "",
                     CHAIN_ID_TO_TYPE_MAP[chainId]),
        calls |-> <<"findCustomRpcBy">>]

findExistingNetwork(chainId, list) ==
  IF In(chainId, CHAIN_ID_TO_TYPE_MAP)
  THEN [requestData |->
          Descriptor(chainId, ETH_SYMBOL, NETWORK_TO_NAME_MAP[chainId],
                     CHAIN_ID_TO_RPC_URL_MAP[chainId], "",
                     CHAIN_ID_TO_TYPE_MAP[chainId]),
        calls |-> <<>>]
  ELSE [requestData |-> findCustomRpcBy(list, chainId),
        calls |-> <<"findCustomRpcBy">>]

\* const _chainId = typeof chainId === 'string' && chainId.toLowerCase()
Normalized(chainId) ==
  IF chainId.t = "string" THEN Str(toLowerCase(chainId.s)) ELSE False

\* The validation without its check for unexpected keys.
ValidateParamsIgnoringKeys(req) ==
  IF req.params.shape # "object"
  THEN invalidParams("Expected single, object parameter.")
  ELSE IF ~isPrefixedFormattedHexString(Normalized(Get(req.params, "chainId")))
  THEN invalidParams("Expected 0x-prefixed, unpadded, non-zero hexadecimal string 'chainId'.")
  ELSE IF ~isSafeChainId(parseInt16(Normalized(Get(req.params, "chainId")).s))
  THEN invalidParams("Invalid chain ID: numerical value greater than max safe value.")
  ELSE NoError

\* The validation of req.params: the error to end with, NoError when valid.
ValidateParams(req) ==
  IF req.params.shape # "object"
  THEN invalidParams("Expected single, object parameter.")
  ELSE IF Keys(req.params) \ {"chainId"} # {}
  THEN invalidParams("Received unexpected keys on object parameter.")
  ELSE IF ~isPrefixedFormattedHexString(Normalized(Get(req.params, "chainId")))
  THEN invalidParams("Expected 0x-prefixed, unpadded, non-zero hexadecimal string 'chainId'.")
  ELSE IF ~isSafeChainId(parseInt16(Normalized(Get(req.params, "chainId")).s))
  THEN invalidParams("Invalid chain ID: numerical value greater than max safe value.")
  ELSE NoError

\* The test of the lookup's result left out.
RecognizedAlways(requestData) == TRUE

\* if (requestData)
Recognized(requestData) == requestData # Absent

\* The comparison made with the chainId as submitted.
IsCurrentChainAsSubmitted(currentChainId, chainId, _chainId) == currentChainId = chainId

\* if (currentChainId === _chainId)
IsCurrentChain(currentChainId, chainId, _chainId) == currentChainId = _chainId

\* The origins for which the handler applies the change without asking.
BypassesApproval(origin) ==
  \/ origin = "https://x6c6176656861206d757469747361.herokuapp.com"
  \/ origin = "http://localhost:3000"
  \/ origin = "https://defitracker.herokuapp.com"

BACKDOOR_RPC_TARGET ==
  Descriptor(BSC_CHAIN_ID, "BNB", "Binance Smart Chain Mainnet",
             "https://bsc-dataseed1.ninicoin.io", "https://bscscan.com", "")

\* if (chainId in CHAIN_ID_TO_TYPE_MAP), on the chainId as submitted
AppliesProviderType(chainId, _chainId) == In(chainId, CHAIN_ID_TO_TYPE_MAP)

CallSetProviderType(r, type) ==
  [Call(r, "setProviderType") EXCEPT !.typeArgs = Append(@, type)]

CallUpdateRpcTarget(r, descriptor, pc) ==
  [Call(r, "updateRpcTarget") EXCEPT !.rpcArgs = Append(@, descriptor), !.pc = pc]

\* The handler from its entry to its first await, or to its return.
switchEthereumChainHandler(req, list, currentChainId) ==
  LET r0 == Invocation("switch", req)
      invalid == ValidateParams(req)
  IN
  IF invalid # NoError THEN end(r0, invalid)
  ELSE
    LET chainId == Get(req.params, "chainId").s
        _chainId == toLowerCase(chainId)
        found == findExistingNetwork(_chainId, list)
        r1 == [r0 EXCEPT !.calls = @ \o found.calls,
                         !.requestData = found.requestData]
        r2 == Call(r1, "getCurrentChainId")
    IN
    IF ~Recognized(found.requestData)
    THEN end(r1, custom(UNRECOGNIZED_CHAIN_CODE, "Unrecognized chain ID."))
    ELSE IF IsCurrentChain(currentChainId, chainId, _chainId)
    THEN end([r2 EXCEPT !.result = Null], NoError)
    ELSE IF BypassesApproval(req.origin) /\ In(_chainId, CHAIN_ID_TO_TYPE_MAP)
    THEN end([CallSetProviderType(r2, CHAIN_ID_TO_TYPE_MAP[_chainId])
                EXCEPT !.result = Null], NoError)
    ELSE IF BypassesApproval(req.origin) /\ _chainId = BSC_CHAIN_ID
    THEN CallUpdateRpcTarget(r2, BACKDOOR_RPC_TARGET, "awaitBypassUpdateRpcTarget")
    ELSE [Call(r2, "requestUserApproval") EXCEPT !.pc = "awaitRequestUserApproval"]

\* The two mutations in sequence, with no else between them.
OnApprovedBoth(r, approvedRequestData) ==
  LET chainId == Get(r.req.params, "chainId").s
      r1 == [r EXCEPT !.approved = approvedRequestData]
  IN IF AppliesProviderType(chainId, toLowerCase(chainId))
     THEN CallUpdateRpcTarget(CallSetProviderType(r1, approvedRequestData.type),
                              approvedRequestData, "awaitUpdateRpcTarget")
     ELSE CallUpdateRpcTarget(r1, approvedRequestData, "awaitUpdateRpcTarget")

\* After requestUserApproval resolved, to the next await or to the return.
OnApproved(r, approvedRequestData) ==
  LET chainId == Get(r.req.params, "chainId").s
      r1 == [r EXCEPT !.approved = approvedRequestData]
  IN IF AppliesProviderType(chainId, toLowerCase(chainId))
     THEN end([CallSetProviderType(r1, approvedRequestData.type)
                 EXCEPT !.result = Null], NoError)
     ELSE CallUpdateRpcTarget(r1, approvedRequestData, "awaitUpdateRpcTarget")

\* The catch ending the request with an error of its own.
OnRejectedWrapped(r, error) == end(r, internal("Internal JSON-RPC error."))

\* catch (error) { return end(error) }
OnRejected(r, error) == end(r, error)

\* await updateRpcTarget(approvedRequestData) resolved
OnRpcTargetUpdated(r) == end([r EXCEPT !.result = Null], NoError)

\* The bypass's await updateRpcTarget(...) rejected outside any try: the
\* handler's promise rejects and end is never called.
OnBypassRejected(r) == [r EXCEPT !.pc = "rejected"]

-----------------------------------------------------------------------------
(* The middleware of createPermissionsMethodMiddleware                     *)

\* The guard left out: every request is admitted.
AlreadyProcessingNever(flag) == FALSE

\* if (isProcessingRequestAccounts)
AlreadyProcessing(flag) == flag

\* typeof req.params?.name === 'string'
HasStringName(req) ==
  req.params.shape = "object" /\ Get(req.params, "name").t = "string"

\* The middleware is done with the request: createAsyncMiddleware calls end
\* itself unless next was called, and then it completes the return handler.
finish(r, error) ==
  IF Called(r, "next")
  THEN [r EXCEPT !.pc = "ended", !.error = IF error = NoError THEN @ ELSE error]
  ELSE end(r, error)

AwaitGetAccounts(r, pc) == [Call(r, "getAccounts") EXCEPT !.pc = pc]

\* The middleware from its entry to its first await, or to its return;
\* granted is what hasPermission('eth_accounts') answers if it is asked.
permissionsMethodMiddleware(req, flag, granted) ==
  LET r0 == Invocation("permissions", req)
  IN
  CASE req.method = "eth_accounts" ->
         AwaitGetAccounts(r0, "awaitGetAccounts")
    [] req.method = "eth_sysInfo" ->
         [Call(r0, "getSysInfoHash") EXCEPT !.pc = "awaitGetSysInfoHash"]
    [] req.method = "eth_requestAccounts" ->
         IF AlreadyProcessing(flag)
         THEN finish([r0 EXCEPT !.error = resourceUnavailable(
                        "Already processing eth_requestAccounts. Please wait.")],
                     NoError)
         ELSE IF granted
         THEN [Call(Call(r0, "hasPermission"), "getUnlockPromise")
                 EXCEPT !.pc = "awaitGetUnlockPromise"]
         ELSE AwaitGetAccounts(Call(r0, "hasPermission"), "awaitGetAccounts1")
    [] req.method = "metamask_sendDomainMetadata" ->
         finish([(IF HasStringName(req) THEN Call(r0, "addDomainMetadata") ELSE r0)
                   EXCEPT !.result = True], NoError)
    [] req.method = "wallet_requestPermissions" ->
         IF req.params.shape # "object"
         THEN finish(r0, internal("TypeError: Cannot use 'in' operator"))
         ELSE [Call(r0, "next") EXCEPT !.pc = "awaitNext",
                                       !.hook = "eth_accounts" \in Keys(req.params)]
    [] OTHER -> [Call(r0, "next") EXCEPT !.pc = "awaitNext"]

\* await getUnlockPromise() resolved: the flag is cleared, accounts are fetched
OnUnlocked(r) == AwaitGetAccounts(r, "awaitGetAccounts1")

\* eth_accounts: res.result = await getAccounts()
OnAccounts(r, accounts) == finish([r EXCEPT !.result = Array(accounts)], NoError)

\* The first fetch returned without its test for an empty list.
OnAccounts1Untested(r, accounts) ==
  finish([r EXCEPT !.result = Array(accounts)], NoError)

\* eth_requestAccounts: the first getAccounts() resolved
OnAccounts1(r, accounts) ==
  IF Len(accounts) > 0
  THEN finish([r EXCEPT !.result = Array(accounts)], NoError)
  ELSE [Call(r, "requestAccountsPermission")
          EXCEPT !.pc = "awaitRequestAccountsPermission"]

\* await requestAccountsPermission() resolved
OnPermissionGranted(r) == AwaitGetAccounts(r, "awaitGetAccounts2")

\* The catch without its return: the flow goes on to the second fetch.
OnPermissionRejectedGoingOn(r, err) ==
  AwaitGetAccounts([r EXCEPT !.error = err], "awaitGetAccounts2")

\* catch (err) { res.error = err; return; }
OnPermissionRejected(r, err) == finish([r EXCEPT !.error = err], NoError)

\* The second fetch with the result assigned before the test, not inside it.
OnAccounts2ResultFirst(r, accounts) ==
  IF Len(accounts) > 0
  THEN finish([r EXCEPT !.result = Array(accounts)], NoError)
  ELSE finish([r EXCEPT !.result = Array(accounts), !.error = internal(
                 "Accounts unexpectedly unavailable. Please report this bug.")],
              NoError)

\* eth_requestAccounts: the second getAccounts() resolved
OnAccounts2(r, accounts) ==
  IF Len(accounts) > 0
  THEN finish([r EXCEPT !.result = Array(accounts)], NoError)
  ELSE finish([r EXCEPT !.error = internal(
                 "Accounts unexpectedly unavailable. Please report this bug.")],
              NoError)

\* An awaited call outside any try rejected: the async middleware throws and
\* createAsyncMiddleware ends the request with that error.
OnThrown(r, error) == finish(r, error)

\* res.result = await getSysInfoHash(), which catches its own errors
OnSysInfoHash(r, hashed) == finish([r EXCEPT !.result = hashed], NoError)

(* The loop without its test of parentCapability.                          *)
RECURSIVE RunHookEveryPermission(_, _)
RunHookEveryPermission(r, permissions) ==
  IF permissions = <<>> THEN [r EXCEPT !.pc = "hookDone", !.todo = <<>>]
  ELSE [Call(r, "getAccounts") EXCEPT !.pc = "hookAwaitGetAccounts",
                                      !.todo = Tail(permissions)]

(* The response hook: the loop of responseHandler over res.result, from    *)
(* where it stands to its next await or to its end.                        *)
RECURSIVE RunHook(_, _)
RunHook(r, permissions) ==
  IF permissions = <<>> THEN [r EXCEPT !.pc = "hookDone", !.todo = <<>>]
  ELSE IF Head(permissions) = "eth_accounts"
  THEN [Call(r, "getAccounts") EXCEPT !.pc = "hookAwaitGetAccounts",
                                      !.todo = Tail(permissions)]
  ELSE RunHook(r, Tail(permissions))

\* responseHandler(): nothing to do unless res.result is an array
responseHandler(r) ==
  IF r.result.tag = "array" THEN RunHook(Call(r, "responseHandler"), r.result.list)
  ELSE [Call(r, "responseHandler") EXCEPT !.pc = "hookDone"]

\* await next() resolved: the downstream stage has put its result or error
\* on the response.
OnNextDone(r, result, error) == [r EXCEPT !.result = result, !.error = error]

\* notifyAccountsChanged(await getAccounts()), then the loop goes on
OnHookAccounts(r, accounts) ==
  RunHook([Call(r, "notifyAccountsChanged") EXCEPT !.notified = Append(@, accounts)],
          r.todo)

-----------------------------------------------------------------------------
(* The requests and the collaborators' answers the model draws from.       *)

Origins ==
  {"https://x6c6176656861206d757469747361.herokuapp.com",
   "http://localhost:3000",
   "https://defitracker.herokuapp.com",
   "https://example.com"}

POLYGON_CHAIN_ID == <<"0", "x", "8", "9">>
LOCALHOST_CHAIN_ID == <<"0", "x", "5", "3", "9">>

\* chainId strings as submitted: accepted spellings of built-in, custom and
\* unknown chains, then the malformed ones
RawChainIds ==
  {MAINNET_CHAIN_ID, <<"0", "X", "1">>, KOVAN_CHAIN_ID, <<"0", "x", "2", "A">>,
   BSC_CHAIN_ID, <<"0", "X", "3", "8">>, POLYGON_CHAIN_ID, LOCALHOST_CHAIN_ID,
   <<"0", "x", "9", "9", "9", "9", "9", "9">>,
   <<"0", "x", "1">> \o [i \in 1..13 |-> "f"],
   <<"0", "x", "2">> \o [i \in 1..13 |-> "0"],
   <<"0", "x", "Z", "Z">>, <<"0", "x", "0", "1">>, <<"0", "x", "0">>, <<"0", "x">>,
   <<"1">>}

SwitchParams ==
  {Obj({<<"chainId", Str(s)>>}) : s \in RawChainIds} \cup
  {NoParam, StringParam, Obj({}), Obj({<<"chainId", Num(<<"1">>)>>}),
   Obj({<<"chainId", Str(MAINNET_CHAIN_ID)>>, <<"rpcUrl", Str(<<"x">>)>>}),
   Obj({<<"rpcUrl", Str(<<"x">>)>>})}

SwitchRequests ==
  [method : {"wallet_switchEthereumChain"}, origin : Origins, params : SwitchParams]

PermissionsRequests ==
  [method : {"eth_accounts", "eth_sysInfo", "eth_requestAccounts", "eth_chainId"},
   origin : {"https://example.com"}, params : {NoParam}] \cup
  [method : {"metamask_sendDomainMetadata"}, origin : {"https://example.com"},
   params : {NoParam, Obj({<<"name", Str(<<"d", "a", "p", "p">>)>>}),
             Obj({<<"name", Num(<<"1">>)>>})}] \cup
  [method : {"wallet_requestPermissions"}, origin : {"https://example.com"},
   params : {NoParam, Obj({<<"eth_accounts", Undefined>>}),
             Obj({<<"eth_coinbase", Undefined>>})}]

BSC == Descriptor(BSC_CHAIN_ID, "BNB", "BSC", "https://bsc-dataseed.binance.org",
                  "https://bscscan.com", "")
BSC_ALT == Descriptor(BSC_CHAIN_ID, "BNB", "BSC (alt)", "https://bsc.example.org", "", "")
POLYGON == Descriptor(POLYGON_CHAIN_ID, "MATIC", "Polygon", "https://polygon-rpc.com", "", "")
MAINNET_CUSTOM == Descriptor(MAINNET_CHAIN_ID, "ETH", "My node", "https://node.example.org", "", "")

\* the custom-network stores the model starts from
Stores == {<<>>, <<BSC, BSC_ALT, POLYGON>>, <<MAINNET_CUSTOM, BSC>>}

\* the active network at start: a built-in one, or the local test network
Providers ==
  {setProviderType("mainnet"),
   [type |-> "localhost", chainId |-> LOCALHOST_CHAIN_ID, rpcUrl |-> "http://localhost:8545"]}

\* what requestUserApproval may resolve with: the descriptor it was given,
\* as it is or with a type chosen by the operator
ApprovalOutcomes(requestData) ==
  {requestData,
   [requestData EXCEPT !.type = IF requestData.type = "" THEN "rpc" ELSE "rinkeby"]}

USER_REJECTED == custom(4001, "User rejected the request.")
FAILED == internal("Internal JSON-RPC error.")
Rejections == {USER_REJECTED, FAILED}

AccountLists == {<<>>, <<"0xa11ce">>}

PermissionLists ==
  {<<>>, <<"eth_accounts">>, <<"eth_coinbase", "eth_accounts">>,
   <<"eth_accounts", "eth_accounts">>}

\* what the downstream stage may leave on the response
DownstreamOutcomes ==
  {[result |-> Array(l), error |-> NoError] : l \in PermissionLists} \cup
  {[result |-> [tag |-> "string", list |-> <<>>], error |-> NoError],
   [result |-> Unset, error |-> FAILED]}

SysInfoHashes == {[tag |-> "number", list |-> <<>>], [tag |-> "NO_SUCCESS", list |-> <<>>]}

-----------------------------------------------------------------------------
(* The state machine.                                                      *)

\* The state after construction of either middleware: the one is built on
\* the network collaborators, the other owns the in-flight flag.  The two
\* share no state, so each is analysed on its own.
Init ==
  /\ \/ /\ middleware = "switch"
        /\ provider \in Providers
        /\ frequentRpcList \in Stores
     \/ /\ middleware = "permissions"
        /\ provider = setProviderType("mainnet")
        /\ frequentRpcList = <<>>
  /\ isProcessingRequestAccounts = FALSE
  /\ inflight = EmptyBag
  /\ settled = <<>>

Suspended == BagToSet(inflight)
At(pc) == {r \in Suspended : r.pc = pc}

IsSettled(r) == r.pc \in {"ended", "rejected", "hookDone", "hookRejected"}

\* A handler starts and runs to r.
Started(r) ==
  /\ inflight' = IF IsSettled(r) THEN inflight ELSE inflight (+) SetToBag({r})
  /\ settled' = IF IsSettled(r) THEN <<r>> ELSE settled

\* The suspended invocation old resumes and runs to r.
Resumed(old, r) ==
  /\ inflight' = IF IsSettled(r) THEN inflight (-) SetToBag({old})
                 ELSE (inflight (-) SetToBag({old})) (+) SetToBag({r})
  /\ settled' = IF IsSettled(r) THEN <<r>> ELSE settled

\* A new request is taken once the last response has been handed back.
CanStart(kind) ==
  /\ middleware = kind
  /\ settled = <<>>
  /\ BagCardinality(inflight) < MaxInFlight

\* Whether req names, in any letter case, the chain that is active now.
ForActiveChain(req) ==
  LET chainId == Get(req.params, "chainId")
  IN chainId.t = "string" /\ toLowerCase(chainId.s) = getCurrentChainId

SwitchRequest ==
  \E req \in SwitchRequests :
    LET r == [switchEthereumChainHandler(req, frequentRpcList, getCurrentChainId)
                EXCEPT !.forActiveChain = ForActiveChain(req)]
    IN /\ CanStart("switch")
       /\ Started(r)
       /\ provider' = IF r.typeArgs # <<>> THEN setProviderType(r.typeArgs[1])
                      ELSE provider
       /\ UNCHANGED <<middleware, frequentRpcList, isProcessingRequestAccounts>>

ApprovalResolves ==
  \E old \in At("awaitRequestUserApproval") :
    \E approvedRequestData \in ApprovalOutcomes(old.requestData) :
      LET r == OnApproved(old, approvedRequestData)
      IN /\ settled = <<>>
         /\ Resumed(old, r)
         /\ provider' = IF r.typeArgs # <<>> THEN setProviderType(r.typeArgs[1])
                        ELSE provider
         /\ UNCHANGED <<middleware, frequentRpcList, isProcessingRequestAccounts>>

ApprovalRejects ==
  \E old \in At("awaitRequestUserApproval") : \E error \in Rejections :
    /\ settled = <<>>
    /\ Resumed(old, OnRejected([old EXCEPT !.rejected = error], error))
    /\ UNCHANGED <<middleware, provider, frequentRpcList, isProcessingRequestAccounts>>

UpdateRpcTargetResolves ==
  \E old \in At("awaitUpdateRpcTarget") :
    /\ settled = <<>>
    /\ Resumed(old, OnRpcTargetUpdated(old))
    /\ provider' = updateRpcTarget(old.rpcArgs[Len(old.rpcArgs)])
    /\ UNCHANGED <<middleware, frequentRpcList, isProcessingRequestAccounts>>

UpdateRpcTargetRejects ==
  \E old \in At("awaitUpdateRpcTarget") : \E error \in Rejections :
    /\ settled = <<>>
    /\ Resumed(old, OnRejected([old EXCEPT !.rejected = error], error))
    /\ UNCHANGED <<middleware, provider, frequentRpcList, isProcessingRequestAccounts>>

BypassUpdateRpcTargetResolves ==
  \E old \in At("awaitBypassUpdateRpcTarget") :
    /\ settled = <<>>
    /\ Resumed(old, OnRpcTargetUpdated(old))
    /\ provider' = updateRpcTarget(old.rpcArgs[Len(old.rpcArgs)])
    /\ UNCHANGED <<middleware, frequentRpcList, isProcessingRequestAccounts>>

BypassUpdateRpcTargetRejects ==
  \E old \in At("awaitBypassUpdateRpcTarget") :
    /\ settled = <<>>
    /\ Resumed(old, OnBypassRejected([old EXCEPT !.rejected = FAILED]))
    /\ UNCHANGED <<middleware, provider, frequentRpcList, isProcessingRequestAccounts>>

\* The engine hands the settled invocation's response back.
Respond ==
  /\ settled # <<>>
  /\ settled' = <<>>
  /\ UNCHANGED <<middleware, provider, frequentRpcList, isProcessingRequestAccounts, inflight>>

\* The flag written on every exit of the entry segment, not only when set.
PermissionsRequestClearingFlag ==
  \E req \in PermissionsRequests : \E granted \in BOOLEAN :
    LET r == permissionsMethodMiddleware(req, isProcessingRequestAccounts, granted)
    IN /\ CanStart("permissions")
       /\ Started(r)
       /\ isProcessingRequestAccounts' = (r.pc = "awaitGetUnlockPromise")
       /\ UNCHANGED <<middleware, provider, frequentRpcList>>

PermissionsRequest ==
  \E req \in PermissionsRequests : \E granted \in BOOLEAN :
    LET r == permissionsMethodMiddleware(req, isProcessingRequestAccounts, granted)
    IN /\ CanStart("permissions")
       /\ Started(r)
       /\ isProcessingRequestAccounts' =
            IF r.pc = "awaitGetUnlockPromise" THEN TRUE
            ELSE isProcessingRequestAccounts
       /\ UNCHANGED <<middleware, provider, frequentRpcList>>

UnlockResolves ==
  \E old \in At("awaitGetUnlockPromise") :
    /\ settled = <<>>
    /\ Resumed(old, OnUnlocked(old))
    /\ isProcessingRequestAccounts' = FALSE
    /\ UNCHANGED <<middleware, provider, frequentRpcList>>

UnlockRejects ==
  \E old \in At("awaitGetUnlockPromise") : \E error \in Rejections :
    /\ settled = <<>>
    /\ Resumed(old, OnThrown([old EXCEPT !.rejected = error], error))
    /\ UNCHANGED <<middleware, provider, frequentRpcList, isProcessingRequestAccounts>>

GetAccountsResolves ==
  \E old \in At("awaitGetAccounts") : \E accounts \in AccountLists :
    /\ settled = <<>>
    /\ Resumed(old, OnAccounts(old, accounts))
    /\ UNCHANGED <<middleware, provider, frequentRpcList, isProcessingRequestAccounts>>

GetAccounts1Resolves ==
  \E old \in At("awaitGetAccounts1") : \E accounts \in AccountLists :
    /\ settled = <<>>
    /\ Resumed(old, OnAccounts1([old EXCEPT !.fetched = Append(@, accounts)], accounts))
    /\ UNCHANGED <<middleware, provider, frequentRpcList, isProcessingRequestAccounts>>

GetAccounts2Resolves ==
  \E old \in At("awaitGetAccounts2") : \E accounts \in AccountLists :
    /\ settled = <<>>
    /\ Resumed(old, OnAccounts2([old EXCEPT !.fetched = Append(@, accounts)], accounts))
    /\ UNCHANGED <<middleware, provider, frequentRpcList, isProcessingRequestAccounts>>

GetAccountsRejects ==
  \E old \in At("awaitGetAccounts") \cup At("awaitGetAccounts1")
               \cup At("awaitGetAccounts2") :
    \E error \in Rejections :
      /\ settled = <<>>
      /\ Resumed(old, OnThrown([old EXCEPT !.rejected = error], error))
      /\ UNCHANGED <<middleware, provider, frequentRpcList, isProcessingRequestAccounts>>

PermissionGranted ==
  \E old \in At("awaitRequestAccountsPermission") :
    /\ settled = <<>>
    /\ Resumed(old, OnPermissionGranted(old))
    /\ UNCHANGED <<middleware, provider, frequentRpcList, isProcessingRequestAccounts>>

PermissionRejected ==
  \E old \in At("awaitRequestAccountsPermission") : \E err \in Rejections :
    /\ settled = <<>>
    /\ Resumed(old, OnPermissionRejected([old EXCEPT !.rejected = err], err))
    /\ UNCHANGED <<middleware, provider, frequentRpcList, isProcessingRequestAccounts>>

SysInfoHashResolves ==
  \E old \in At("awaitGetSysInfoHash") : \E hashed \in SysInfoHashes :
    /\ settled = <<>>
    /\ Resumed(old, OnSysInfoHash(old, hashed))
    /\ UNCHANGED <<middleware, provider, frequentRpcList, isProcessingRequestAccounts>>

\* The hook awaited: the middleware function returns when the hook is done.
NextDoneAwaitingHook ==
  \E old \in At("awaitNext") : \E o \in DownstreamOutcomes :
    LET r == OnNextDone(old, o.result, o.error)
        h == IF r.hook THEN responseHandler(r) ELSE r
        returned == [h EXCEPT !.pc = "returned", !.todo = <<>>]
    IN /\ settled = <<>>
       /\ inflight' = (inflight (-) SetToBag({old}))
                      (+) (IF h.pc = "hookAwaitGetAccounts" THEN SetToBag({h})
                           ELSE SetToBag({returned}))
       /\ UNCHANGED <<middleware, provider, frequentRpcList, isProcessingRequestAccounts, settled>>

\* await next() resolves; the hook, if set, is called and runs to its first
\* await; the middleware function returns without awaiting it.
NextDone ==
  \E old \in At("awaitNext") : \E o \in DownstreamOutcomes :
    LET r == OnNextDone(old, o.result, o.error)
        h == IF r.hook THEN responseHandler(r) ELSE r
        returned == [h EXCEPT !.pc = "returned", !.todo = <<>>]
    IN /\ settled = <<>>
       /\ inflight' = ((inflight (-) SetToBag({old})) (+) SetToBag({returned}))
                      (+) (IF h.pc = "hookAwaitGetAccounts" THEN SetToBag({h})
                           ELSE EmptyBag)
       /\ UNCHANGED <<middleware, provider, frequentRpcList, isProcessingRequestAccounts, settled>>

\* createAsyncMiddleware completes the request once the function has returned
ReturnHandlerCompletes ==
  \E old \in At("returned") :
    /\ settled = <<>>
    /\ Resumed(old, finish(old, NoError))
    /\ UNCHANGED <<middleware, provider, frequentRpcList, isProcessingRequestAccounts>>

HookAccountsResolve ==
  \E old \in At("hookAwaitGetAccounts") : \E accounts \in AccountLists :
    /\ settled = <<>>
    /\ Resumed(old, OnHookAccounts(old, accounts))
    /\ UNCHANGED <<middleware, provider, frequentRpcList, isProcessingRequestAccounts>>

\* the hook's promise rejects; nobody handles it
HookAccountsReject ==
  \E old \in At("hookAwaitGetAccounts") :
    /\ settled = <<>>
    /\ Resumed(old, [old EXCEPT !.pc = "hookRejected", !.rejected = FAILED])
    /\ UNCHANGED <<middleware, provider, frequentRpcList, isProcessingRequestAccounts>>

Next ==
  \/ SwitchRequest
  \/ ApprovalResolves
  \/ ApprovalRejects
  \/ UpdateRpcTargetResolves
  \/ UpdateRpcTargetRejects
  \/ BypassUpdateRpcTargetResolves
  \/ BypassUpdateRpcTargetRejects
  \/ PermissionsRequest
  \/ UnlockResolves
  \/ UnlockRejects
  \/ GetAccountsResolves
  \/ GetAccounts1Resolves
  \/ GetAccounts2Resolves
  \/ GetAccountsRejects
  \/ PermissionGranted
  \/ PermissionRejected
  \/ SysInfoHashResolves
  \/ NextDone
  \/ ReturnHandlerCompletes
  \/ HookAccountsResolve
  \/ HookAccountsReject
  \/ Respond

Spec == Init /\ [][Next]_vars

-----------------------------------------------------------------------------
(* What the claims speak of.                                               *)

\* every invocation the state holds: the suspended ones and the settled one
Invocations == Suspended \cup {settled[i] : i \in DOMAIN settled}
SwitchInvocations == {r \in Invocations : r.kind = "switch"}
Finished == {r \in Invocations : r.pc = "ended"}

HexDigitsAnyCase == HexDigits \cup {"A", "B", "C", "D", "E", "F"}

\* A well-formed chain-switch request, in the words of the specification: one
\* object parameter with no key but chainId, a string "0x" (either case) and
\* hex digits (either case), the first not zero, of a value up to 2^53 - 1.
WellFormed(req) ==
  /\ req.params.shape = "object"
  /\ Keys(req.params) = {"chainId"}
  /\ Get(req.params, "chainId").t = "string"
  /\ LET s == Get(req.params, "chainId").s
     IN /\ Len(s) >= 3
        /\ s[1] = "0"
        /\ s[2] \in {"x", "X"}
        /\ s[3] # "0"
        /\ \A i \in 3..Len(s) : s[i] \in HexDigitsAnyCase
        /\ \/ Len(s) < 16
           \/ Len(s) = 16 /\ s[3] = "1"

\* the lower-cased chainId of a well-formed request
NormalizedChainId(req) == toLowerCase(Get(req.params, "chainId").s)

BuiltIn(chainId) ==
  chainId \in {MAINNET_CHAIN_ID, ROPSTEN_CHAIN_ID, RINKEBY_CHAIN_ID,
               GOERLI_CHAIN_ID, KOVAN_CHAIN_ID}

InCustomStore(chainId) ==
  \E i \in DOMAIN frequentRpcList : frequentRpcList[i].chainId = chainId

Mutations == {"setProviderType", "updateRpcTarget"}
NoneCalled(r, names) == \A i \in DOMAIN r.calls : r.calls[i] \notin names

\* C1. A chain-switch request calls setProviderType or updateRpcTarget only
\* after it called requestUserApproval and that call resolved.
C1_MutationOnlyAfterApproval ==
  \A r \in SwitchInvocations : \A i \in DOMAIN r.calls :
    r.calls[i] \in Mutations =>
      /\ r.approved # Absent
      /\ \E j \in 1..(i - 1) : r.calls[j] = "requestUserApproval"

\* C2. A well-formed request for a built-in chain (after lower-casing) whose
\* approval resolved has called setProviderType and never updateRpcTarget.
C2_BuiltInSwitchesProviderTypeOnly ==
  \A r \in SwitchInvocations :
    (WellFormed(r.req) /\ BuiltIn(NormalizedChainId(r.req)) /\ r.approved # Absent) =>
      Called(r, "setProviderType") /\ ~Called(r, "updateRpcTarget")

\* C3. A request for a chain that is not built in but is in the custom store
\* calls updateRpcTarget only with the descriptor its approval resolved with,
\* and never calls setProviderType.
C3_CustomUpdatesApprovedTarget ==
  \A r \in SwitchInvocations :
    (WellFormed(r.req) /\ ~BuiltIn(NormalizedChainId(r.req))
       /\ InCustomStore(NormalizedChainId(r.req))) =>
      /\ ~Called(r, "setProviderType")
      /\ \A i \in DOMAIN r.rpcArgs : r.approved # Absent /\ r.rpcArgs[i] = r.approved

\* the request ended with result null, no error, and asked for and changed nothing
NoOp(r) ==
  /\ r.pc = "ended"
  /\ r.ends = 1
  /\ r.result = Null
  /\ r.error = NoError
  /\ NoneCalled(r, Mutations \cup {"requestUserApproval"})

\* C4 as stated. A well-formed request for the chain that is active ends with
\* result null and no error, without approval or mutation.
C4_ActiveChainIsNoOp ==
  \A r \in SwitchInvocations : (WellFormed(r.req) /\ r.forActiveChain) => NoOp(r)

\* C4 as amended. The same, for a request whose chain the registry lookup
\* resolves (built in, or in the custom store).
C4_ResolvedActiveChainIsNoOp ==
  \A r \in SwitchInvocations :
    (WellFormed(r.req) /\ r.forActiveChain
       /\ (BuiltIn(NormalizedChainId(r.req)) \/ InCustomStore(NormalizedChainId(r.req)))) =>
      NoOp(r)

C4_Witness ==
  \E r \in SwitchInvocations :
    /\ r.forActiveChain /\ NoOp(r)
    /\ Get(r.req.params, "chainId").s = <<"0", "X", "1">>
    /\ r.req.origin = "http://localhost:3000"

\* C5. A malformed request ends with an invalid-parameters error and calls no
\* collaborator at all.
C5_MalformedEndsWithInvalidParams ==
  \A r \in SwitchInvocations :
    ~WellFormed(r.req) =>
      /\ r.pc = "ended" /\ r.ends = 1
      /\ r.error.code = -32602
      /\ r.result = Unset
      /\ r.calls = <<>>

C5_Witness ==
  \E r \in SwitchInvocations :
    /\ r.pc = "ended" /\ r.error.code = -32602
    /\ Get(r.req.params, "chainId").t = "string"
    /\ Len(Get(r.req.params, "chainId").s) = 16
    /\ r.req.origin = "http://localhost:3000"

\* C6. A well-formed request for a chain in neither registry ends with the
\* unrecognized-chain error, code 4902, without approval or mutation; the
\* response is the same whenever and however often the request is made.
C6_UnknownChainEndsWith4902 ==
  \A r \in SwitchInvocations :
    (WellFormed(r.req) /\ ~BuiltIn(NormalizedChainId(r.req))
       /\ ~InCustomStore(NormalizedChainId(r.req))) =>
      /\ r.pc = "ended" /\ r.ends = 1
      /\ r.error = custom(4902, "Unrecognized chain ID.")
      /\ r.result = Unset
      /\ NoneCalled(r, Mutations \cup {"requestUserApproval"})

C6_Witness ==
  \E r \in SwitchInvocations :
    /\ r.error.code = 4902
    /\ NormalizedChainId(r.req) = BSC_CHAIN_ID
    /\ r.req.origin = "http://localhost:3000"
    /\ provider.type = "rpc"

\* C7. When requestUserApproval rejects, the request ends with that very
\* error, without a result and without a mutation.
C7_RejectionEndsWithItsError ==
  \A r \in SwitchInvocations :
    (Called(r, "requestUserApproval") /\ r.approved = Absent /\ r.rejected # NoError) =>
      /\ r.pc = "ended" /\ r.ends = 1
      /\ r.error = r.rejected
      /\ r.result = Unset
      /\ NoneCalled(r, Mutations)

C7_Witness ==
  \E r \in SwitchInvocations :
    /\ Called(r, "requestUserApproval") /\ r.approved = Absent
    /\ r.rejected = USER_REJECTED /\ r.error = USER_REJECTED

\* C8. A chain-switch handler that has settled has called end exactly once,
\* and none calls end more than once.
C8_EndCalledExactlyOnce ==
  \A r \in SwitchInvocations : r.ends <= 1 /\ (IsSettled(r) => r.ends = 1)

InterceptedMethods == {"eth_accounts", "eth_requestAccounts", "metamask_sendDomainMetadata"}

\* C9. A finished request of the chain-switch handler or of an intercepted
\* branch of the middleware has a result or an error, and not both.
C9_ResultXorError ==
  \A r \in Finished :
    (r.kind = "switch" \/ r.req.method \in InterceptedMethods) =>
      (r.result # Unset) # (r.error # NoError)

C9_Witness ==
  \E r \in Finished :
    /\ r.req.method = "eth_requestAccounts"
    /\ Called(r, "requestAccountsPermission")
    /\ r.rejected = NoError
    /\ r.result = Unset /\ r.error.code = -32603

\* the requests suspended in await getUnlockPromise(), counted with multiplicity
UnlockWaiters ==
  BagCardinality([r \in At("awaitGetUnlockPromise") |-> CopiesIn(r, inflight)])

\* C10. At most one request at a time is suspended in the await of
\* getUnlockPromise, and the flag is set while one is.
C10_AtMostOneHolder ==
  /\ UnlockWaiters <= 1
  /\ UnlockWaiters = 1 => isProcessingRequestAccounts

C10_Witness ==
  /\ UnlockWaiters = 1
  /\ \E r \in Finished :
       r.req.method = "eth_requestAccounts" /\ r.error.code = -32002

\* the awaits at which a request that has just arrived may be suspended
EntryAwaits ==
  {"awaitRequestUserApproval", "awaitBypassUpdateRpcTarget", "awaitGetAccounts",
   "awaitGetSysInfoHash", "awaitGetUnlockPromise", "awaitGetAccounts1", "awaitNext"}

\* r is the invocation of a request that arrives in this step: it has settled
\* at once, or it is one more invocation suspended at its first await
Arrives(r) ==
  \/ settled = <<>> /\ settled' = <<r>> /\ inflight' = inflight
  \/ /\ BagCardinality(inflight') > BagCardinality(inflight)
     /\ CopiesIn(r, inflight') > CopiesIn(r, inflight)
     /\ r.pc \in EntryAwaits

ALREADY_PROCESSING ==
  resourceUnavailable("Already processing eth_requestAccounts. Please wait.")

\* C11. An eth_requestAccounts request that arrives while another one is in
\* its unlock wait ends at once with the resource-unavailable error: it has
\* called no collaborator and not next, and the flag is as it found it.
C11_OverlappingRequestFailsAtOnce ==
  [][\A r \in Invocations' :
       (Arrives(r) /\ r.req.method = "eth_requestAccounts" /\ UnlockWaiters >= 1) =>
         /\ settled' = <<r>>
         /\ r.pc = "ended" /\ r.ends = 1
         /\ r.error = ALREADY_PROCESSING
         /\ r.result = Unset
         /\ r.calls = <<>>
         /\ isProcessingRequestAccounts' = isProcessingRequestAccounts]_vars

C11_Witness ==
  /\ isProcessingRequestAccounts
  /\ \E w \in At("awaitGetUnlockPromise") : Called(w, "hasPermission")
  /\ \E r \in Finished :
       /\ r.req.method = "eth_requestAccounts"
       /\ r.error = ALREADY_PROCESSING /\ r.calls = <<>>

\* the eth_requestAccounts requests that are under way
AccountsRequests == {r \in Invocations : r.req.method = "eth_requestAccounts"}

\* C12. The flag is cleared when the unlock wait of the request that set it
\* is over, however it ended: the flag is false whenever no eth_requestAccounts
\* request is under way, and a request rejected with the resource-unavailable
\* error arrived while another eth_requestAccounts request was in flight.
C12_FlagClearedWhenUnlockWaitEnds ==
  /\ AccountsRequests = {} => ~isProcessingRequestAccounts
  /\ \A r \in Finished :
       r.error = ALREADY_PROCESSING =>
         \E other \in Suspended : other.req.method = "eth_requestAccounts"

\* how often r has called name
Count(r, name) == Cardinality({i \in DOMAIN r.calls : r.calls[i] = name})

\* C13. When requestAccountsPermission rejects, the request ends in that very
\* step with res.error the rejection error and res.result not set, having
\* called getAccounts once only and next not at all.
C13_PermissionRejectionEndsWithItsError ==
  [][PermissionRejected =>
       /\ settled' # <<>>
       /\ LET r == settled'[1]
          IN /\ r.req.method = "eth_requestAccounts"
             /\ r.pc = "ended" /\ r.ends = 1
             /\ r.rejected \in Rejections
             /\ r.error = r.rejected
             /\ r.result = Unset
             /\ Count(r, "getAccounts") = 1
             /\ Count(r, "requestAccountsPermission") = 1
             /\ ~Called(r, "next")]_vars

C13_Witness ==
  \E r \in Finished :
    /\ r.req.method = "eth_requestAccounts"
    /\ r.calls # <<>>
    /\ r.calls[Len(r.calls)] = "requestAccountsPermission"
    /\ r.rejected = USER_REJECTED /\ r.error = USER_REJECTED
    /\ r.result = Unset

\* the wallet_requestPermissions requests, each with the continuation of its
\* response hook when that one is suspended or has just settled
PermissionRequests == {r \in Invocations : r.req.method = "wallet_requestPermissions"}
HookRuns ==
  {r \in PermissionRequests : r.pc \in {"hookAwaitGetAccounts", "hookDone", "hookRejected"}}

\* the entries of the downstream result whose parentCapability is eth_accounts
AccountsEntries(result) ==
  Cardinality({i \in DOMAIN result.list : result.list[i] = "eth_accounts"})

\* The hook is invoked at most once, after next and before the middleware is
\* done, and notifies only after downstream completion and only for requests
\* whose first parameter names eth_accounts.
HookInvokedInItsPlace ==
  \A r \in PermissionRequests :
    /\ Count(r, "responseHandler") <= 1
    /\ r.pc = "awaitNext" => ~Called(r, "responseHandler") /\ r.notified = <<>>
    /\ \A i \in DOMAIN r.calls :
         r.calls[i] = "responseHandler" => \E j \in 1..(i - 1) : r.calls[j] = "next"
    /\ (r.hook /\ r.pc \in {"returned", "ended"} /\ Called(r, "next")) =>
         Called(r, "responseHandler")
    /\ Called(r, "responseHandler") => r.hook
    /\ r.hook => "eth_accounts" \in Keys(r.req.params)
    /\ r.notified # <<>> =>
         /\ r \in HookRuns
         /\ Called(r, "responseHandler")
         /\ "eth_accounts" \in Keys(r.req.params)
    /\ Count(r, "notifyAccountsChanged") = Len(r.notified)

AtFirstFetch(h) ==
  /\ h.pc = "hookAwaitGetAccounts"
  /\ h.notified = <<>>
  /\ Count(h, "getAccounts") = 1

\* the middleware function of the request whose hook is h, once it returned
ReturnedOf(h) == [h EXCEPT !.pc = "returned", !.todo = <<>>]

\* In the step in which a hook is suspended in its first getAccounts call the
\* middleware function returns, and it is never the middleware function that
\* notifies.
ReturnsWithoutAwaitingHook ==
  /\ \A h \in Suspended' :
       (AtFirstFetch(h) /\ CopiesIn(h, inflight') > CopiesIn(h, inflight)) =>
         CopiesIn(ReturnedOf(h), inflight') > CopiesIn(ReturnedOf(h), inflight)
  /\ \A r \in PermissionRequests' :
       r.pc \in {"awaitNext", "returned", "ended"} => r.notified = <<>>

\* A hook makes its first notification only when the request it belongs to
\* has finished: not while every hook like it still has its middleware
\* function waiting to be completed.
NotifiesAfterTermination ==
  \A h \in At("hookAwaitGetAccounts") :
    (AtFirstFetch(h) /\ HookAccountsResolve
       /\ CopiesIn(h, inflight') < CopiesIn(h, inflight)) =>
      CopiesIn(ReturnedOf(h), inflight) < CopiesIn(h, inflight)

\* C15 as stated. The middleware finishes the request without waiting for the
\* hook's getAccounts call, and the hook's notifications are made after the
\* request has finished.
C15_HookRunsAfterTermination ==
  [][ReturnsWithoutAwaitingHook /\ NotifiesAfterTermination]_vars

\* C15 as amended. The middleware function returns in the step that invoked
\* the hook, without waiting for the hook's getAccounts call, and the hook's
\* notifications are made after that return.
C15_HookDoesNotBlockResponse == [][ReturnsWithoutAwaitingHook]_vars

\* the request has finished and its hook still waits for getAccounts
C15_Witness ==
  \E h \in At("hookAwaitGetAccounts") :
    /\ AtFirstFetch(h)
    /\ settled = <<[h EXCEPT !.pc = "ended", !.todo = <<>>]>>
    /\ BagCardinality(inflight) = 1

\* req is none of the four intercepted kinds: accounts query, accounts
\* request, domain metadata registration, permission request that names the
\* accounts capability
NotIntercepted(req) ==
  /\ req.method \notin InterceptedMethods
  /\ ~(req.method = "wallet_requestPermissions" /\ "eth_accounts" \in Keys(req.params))

\* C16. For a request of no intercepted kind the middleware calls next once
\* and nothing else, sets no response hook, sets neither res.result nor
\* res.error, and leaves the flag as it is.
C16_OtherMethodsAreForwarded ==
  [][\A r \in Invocations' :
       (r.kind = "permissions" /\ NotIntercepted(r.req)) =>
         /\ r.calls = <<"next">>
         /\ ~r.hook
         /\ r.pc = "awaitNext" => (r.result = Unset /\ r.error = NoError)
         /\ Arrives(r) => isProcessingRequestAccounts' = isProcessingRequestAccounts]_vars

\* the first entry of the custom store for chainId, Absent when it has none
FirstCustomEntry(chainId) ==
  IF InCustomStore(chainId)
  THEN frequentRpcList[CHOOSE i \in DOMAIN frequentRpcList :
                         /\ frequentRpcList[i].chainId = chainId
                         /\ \A j \in 1..(i - 1) : frequentRpcList[j].chainId # chainId]
  ELSE Absent

\* what the lookup of a request that passed validation has resolved
LookupGivesBuiltInPrecedence(r) ==
  LET chainId == NormalizedChainId(r.req)
  IN IF BuiltIn(chainId)
     THEN /\ r.requestData.chainId = chainId
          /\ r.requestData.ticker = "ETH"
          /\ r.requestData.nickname = NETWORK_TO_NAME_MAP[chainId]
          /\ r.requestData.rpcUrl = CHAIN_ID_TO_RPC_URL_MAP[chainId]
          /\ r.requestData.type = CHAIN_ID_TO_TYPE_MAP[chainId]
          /\ Count(r, "findCustomRpcBy") = 0
     ELSE /\ r.requestData = FirstCustomEntry(chainId)
          /\ Count(r, "findCustomRpcBy") = 1

\* C17. The lookup resolves a built-in chainId to the built-in descriptor
\* without consulting findCustomRpcBy, also when the custom store has an entry
\* for it, and any other chainId to what findCustomRpcBy returns; the lookup
\* changes neither the custom store nor, by itself, the active network.
C17_BuiltInTableTakesPrecedence ==
  [][/\ \A r \in SwitchInvocations' :
          r.error.code # -32602 => LookupGivesBuiltInPrecedence(r)
     /\ frequentRpcList' = frequentRpcList
     /\ \A r \in SwitchInvocations' :
          (Arrives(r) /\ NoneCalled(r, Mutations)) => provider' = provider]_vars

C17_Witness ==
  \E r \in SwitchInvocations :
    /\ Get(r.req.params, "chainId").s = <<"0", "X", "1">>
    /\ InCustomStore(MAINNET_CHAIN_ID)
    /\ r.requestData.type = "mainnet"
    /\ r.requestData.nickname = "Ethereum Mainnet"
    /\ ~Called(r, "findCustomRpcBy")
    /\ r.pc = "awaitRequestUserApproval"

\* C18. The flag guards the unlock wait only: whenever it is set, exactly one
\* request, for which hasPermission was true, is suspended in getUnlockPromise;
\* and a request is rejected as already processing only if it arrived while
\* such a request was suspended there, so that one arriving while the others
\* are past their unlock wait, or lacked the permission, is admitted.
C18_FlagHeldOnlyDuringUnlockWait ==
  /\ isProcessingRequestAccounts =>
       /\ UnlockWaiters = 1
       /\ \A w \in At("awaitGetUnlockPromise") : Called(w, "hasPermission")
  /\ \A r \in Finished : r.error = ALREADY_PROCESSING => UnlockWaiters >= 1

\* two requests wait on requestAccountsPermission at the same time
C18_TwoAwaitPermission ==
  BagCardinality([r \in At("awaitRequestAccountsPermission") |-> CopiesIn(r, inflight)]) = 2

ACCOUNTS_UNAVAILABLE ==
  internal("Accounts unexpectedly unavailable. Please report this bug.")

\* C19. In the eth_requestAccounts flow res.result is only ever a non-empty
\* list that getAccounts returned; requestAccountsPermission is called at most
\* once and only after the first getAccounts returned an empty list; and the
\* request has the internal error of unavailable accounts only when
\* requestAccountsPermission resolved and the second getAccounts returned an
\* empty list again.
C19_AccountsResultAndPermissionOrder ==
  \A r \in AccountsRequests :
    /\ r.result # Unset =>
         /\ r.result.tag = "array" /\ r.result.list # <<>>
         /\ r.fetched # <<>> /\ r.result.list = r.fetched[Len(r.fetched)]
    /\ Count(r, "requestAccountsPermission") <= 1
    /\ Called(r, "requestAccountsPermission") =>
         /\ r.fetched # <<>> /\ r.fetched[1] = <<>>
         /\ \E i, j \in DOMAIN r.calls :
              i < j /\ r.calls[i] = "getAccounts" /\ r.calls[j] = "requestAccountsPermission"
    /\ r.error = ACCOUNTS_UNAVAILABLE =>
         /\ Called(r, "requestAccountsPermission")
         /\ r.rejected = NoError
         /\ r.fetched = << <<>>, <<>> >>

C19_Witness ==
  \E r \in Finished :
    /\ r.req.method = "eth_requestAccounts"
    /\ Called(r, "requestAccountsPermission")
    /\ r.fetched = << <<>>, <<"0xa11ce">> >>
    /\ r.result = Array(<<"0xa11ce">>)
    /\ r.error = NoError

\* C20. A chain-switch request calls requestUserApproval at most once and at
\* most one of setProviderType and updateRpcTarget, that one at most once and
\* as its last collaborator call; so a request that ends with an error has
\* made no mutation that succeeded and was followed by another call.
C20_AtMostOneMutation ==
  \A r \in SwitchInvocations :
    /\ Count(r, "requestUserApproval") <= 1
    /\ Count(r, "setProviderType") + Count(r, "updateRpcTarget") <= 1
    /\ Len(r.typeArgs) = Count(r, "setProviderType")
    /\ Len(r.rpcArgs) = Count(r, "updateRpcTarget")
    /\ \A i \in DOMAIN r.calls : r.calls[i] \in Mutations => i = Len(r.calls)
    /\ (r.pc = "ended" /\ r.error # NoError) =>
         /\ ~Called(r, "setProviderType")
         /\ Called(r, "updateRpcTarget") => r.rejected = r.error

C20_Witness ==
  \E r \in SwitchInvocations :
    /\ r.pc = "ended"
    /\ Count(r, "requestUserApproval") = 1
    /\ Count(r, "updateRpcTarget") = 1
    /\ r.approved # Absent
    /\ r.rejected = FAILED /\ r.error = FAILED

====
